---- MODULE Spec2Model ----
(***************************************************************************)
(* State-machine model of alloc_utils::linear_alloc::LinearAlloc, the      *)
(* bump allocator over a caller-supplied byte slice, and of                *)
(* alloc_utils::vec2::Vec over raw_vec::RawVec, backed by a LinearAlloc.   *)
(*                                                                         *)
(* The allocator's own fields are top and high; buf is represented by the  *)
(* address of buf[0] (buf_base) and by buf.len() (buf_len).  The caller's  *)
(* side (the pointers it holds, the order it has freed blocks in, the      *)
(* result of its last call) is kept in blocks, hist, stuck and last, which *)
(* no operation of the allocator reads.                                    *)
(*                                                                         *)
(* Spec is the allocator driven directly by a caller.  SpecVec is one Vec  *)
(* on the allocator, next to another user that allocates blocks of the     *)
(* same arena and keeps them; there the                                    *)
(* bytes of buf are mem, the Vec's fields are vec, a Drain borrowed from   *)
(* it is iter, and drops, trail and vlast are the caller's record.         *)
(* SpecIter is a Vec that is filled by push and emptied through Drain and  *)
(* IntoIter; an IntoIter owns the RawVec of the Vec it was made from, so   *)
(* while it lives vec is not alive and still holds buf.ptr and buf.cap.    *)
(* SpecRaw is a RawVec whose owner calls new, with_capacity, reserve, grow *)
(* and Drop.  SpecTwo is two Vecs that push on one arena.                  *)
(***************************************************************************)
EXTENDS Integers, Sequences, FiniteSets, TLC

VARIABLES
    buf_base,   \* address of buf[0]
    buf_len,    \* buf.len()
    top,        \* LinearAlloc::top
    high,       \* LinearAlloc::high
    blocks,     \* caller: the live blocks (returned, not yet freed), oldest first
    hist,       \* caller: what it did since the arena was last empty
    stuck,      \* caller: it freed every block once, not in reverse order
    last        \* caller: its last call, the arguments and the result

vars == <<buf_base, buf_len, top, high, blocks, hist, stuck, last>>

VARIABLES
    mem,        \* the bytes of buf, by index
    vec,        \* the Vec: alive, buf.ptr, buf.cap and len
    iter,       \* the Drain that borrows the Vec, or the IntoIter made from
                \* it, if any: start and end
    drops,      \* caller: for each element made, how often its Drop has run
    trail,      \* caller: the values pushed, while every call was an Ok push
    vlast,      \* caller: its last call on the Vec, and the one before
    taken,      \* caller: what the last Drain or IntoIter was made over, and
                \* how many elements it has yielded from each end
    held        \* caller: the size of the block the allocator gave the RawVec

vecVars == <<mem, vec, iter, drops, trail, vlast, taken, held>>

allVars == <<buf_base, buf_len, top, high, blocks, hist, stuck, last,
             mem, vec, iter, drops, trail, vlast, taken, held>>

----------------------------------------------------------------------------
(* Bounds of the model. *)

MaxBufLen == 3      \* buf.len() ranges over 0..MaxBufLen
MaxSize   == 1      \* layout.size() ranges over 0..MaxSize, and usize::MAX
MaxAlign  == 4      \* layout.align() ranges over the powers of two <= MaxAlign
MaxGrow   == 1      \* new_size - layout.size() ranges over 0..MaxGrow
MaxBlocks == 2      \* blocks live at one time
WordBits  == 6      \* width of usize in the model

UsizeMax == 2^WordBits - 1

Aligns == {a \in 1..MaxAlign : \E k \in 0..MaxAlign : a = 2^k}

Sizes == (0..MaxSize) \cup {UsizeMax}

\* The slice's address: a multiple of every alignment, or odd (a [u8] slice
\* is only 1-aligned).
BufBases ==
    LET a == CHOOSE x \in Aligns : \A y \in Aligns : y <= x
    IN  {3 * a, 3 * a + 1}

None == -1

Max(a, b) == IF a >= b THEN a ELSE b

----------------------------------------------------------------------------
(* Accessors. *)

bytes_in_use == top

capacity == buf_len

high_water_mark == high

get_marker == top

get_block_idx(ptr) == ptr - buf_base

usable_size(size) == <<size, size>>

----------------------------------------------------------------------------
(* Pieces of alloc. *)

\* usize::checked_add
checked_add(a, b) == IF a + b > UsizeMax THEN None ELSE a + b

\* let block_base = block_base + (block_base % layout.align());
align_block_base(block_base, align) == block_base + (block_base % align)

\* the guard of the match arm that accepts the block
alloc_in_bounds(block, new_top) ==
    /\ new_top # None
    /\ block < buf_len
    /\ new_top <= buf_len

\* A bump that forgets the padding in front of the block.
alloc_new_top_unpadded(block, new_top) == top + (new_top - block)

\* self.top = new_top;
alloc_new_top(block, new_top) == new_top

\* A high-water mark that follows top instead of keeping the maximum.
alloc_new_high_follows_top(old_high, new_top) == new_top

\* self.high = self.high.max(self.top);
alloc_new_high(old_high, new_top) == Max(old_high, new_top)

\* The result of alloc in the current state: the returned pointer, its index
\* into buf and the new top, or an error.
alloc(size, align) ==
    IF top = buf_len
    THEN [ok |-> FALSE, ptr |-> 0, block |-> 0, new_top |-> 0]
    ELSE LET block_base     == align_block_base(buf_base + top, align)
             block_base_idx == block_base - buf_base
             new_top        == checked_add(block_base_idx, size)
         IN  IF alloc_in_bounds(block_base_idx, new_top)
             THEN [ok |-> TRUE, ptr |-> block_base, block |-> block_base_idx,
                   new_top |-> alloc_new_top(block_base_idx, new_top)]
             ELSE [ok |-> FALSE, ptr |-> 0, block |-> 0, new_top |-> 0]

----------------------------------------------------------------------------
(* Pieces of dealloc, grow_in_place and reset_to. *)

\* A dealloc that also pops a block lying below the top.
dealloc_is_top_or_below(block_idx, size) == block_idx + size <= top

\* A dealloc that pops whatever block it is given.
dealloc_is_top_unchecked(block_idx, size) == TRUE

\* if block_idx + layout.size() == self.top
dealloc_is_top(block_idx, size) == block_idx + size = top

\* the assertions at the head of grow_in_place; a failed one panics
grow_asserts(block_idx, size, align, new_size) ==
    /\ block_idx < buf_len
    /\ block_idx < top
    /\ (buf_base + block_idx) % align = 0
    /\ usable_size(size)[1] <= top - block_idx
    /\ new_size >= size
    /\ new_size # 0

\* A space check that is off by one.
grow_has_space_off_by_one(block_growth) ==
    ~ (capacity - bytes_in_use + 1 < block_growth)

\* if space_left < block_growth { return Err }
grow_has_space(block_growth) == ~ (capacity - bytes_in_use < block_growth)

\* A grow_in_place that does not look at what lies above the block.
grow_is_top_unchecked(block_idx, size) == TRUE

\* if block_idx + layout.size() != self.top { return Err }
grow_is_top(block_idx, size) == ~ (block_idx + size # top)

\* self.top += block_growth;
grow_new_top(block_growth) == top + block_growth

\* if marker.0 < self.buf.len() && marker.0 < self.top
reset_to_valid(marker) == marker < buf_len /\ marker < top

\* A reset_to that moves top before it validates the marker.
reset_to_unvalidated(marker) ==
    [ok |-> reset_to_valid(marker), new_top |-> marker]

\* The result of reset_to: Ok with the marker as the new top, or
\* InvalidMarker with top as it was.
reset_to(marker) ==
    IF reset_to_valid(marker)
    THEN [ok |-> TRUE, new_top |-> marker]
    ELSE [ok |-> FALSE, new_top |-> top]

\* A reset that rewinds to the high-water mark.
reset_top_to_high == high

\* self.top = 0;
reset_top == 0

----------------------------------------------------------------------------
(* The caller's record of a call and of its history. *)

Call(op, res, idx, size, align, arg) ==
    [op |-> op, res |-> res, idx |-> idx, size |-> size, align |-> align,
     arg |-> arg, pre_top |-> top, pre_high |-> high, pre_len |-> buf_len]

\* hist.phase is "alloc" while the caller has only allocated since the arena
\* was empty, "dealloc" once it has only freed after that, "mixed" otherwise.
\* While the phase is not "mixed": lifo says every dealloc freed the newest
\* live block, count is the number of blocks allocated (2 stands for 2 or
\* more), nonempty says none has size 0, sum is the total of the sizes and
\* of the padding put before each block, and padded says there was padding.
Mixed == [phase |-> "mixed", lifo |-> FALSE, count |-> 0, nonempty |-> FALSE,
          sum |-> 0, padded |-> FALSE]

Fresh == [phase |-> "alloc", lifo |-> TRUE, count |-> 0, nonempty |-> TRUE,
          sum |-> 0, padded |-> FALSE]

HistAlloc(h, size, pad) ==
    IF h.phase = "alloc"
    THEN [h EXCEPT !.count = IF h.count >= 2 THEN 2 ELSE h.count + 1,
                   !.nonempty = (h.nonempty /\ size > 0),
                   !.sum = h.sum + pad + size,
                   !.padded = (h.padded \/ pad > 0)]
    ELSE Mixed

HistDealloc(h, newest) ==
    IF h.phase = "mixed"
    THEN Mixed
    ELSE [h EXCEPT !.phase = "dealloc", !.lifo = (h.lifo /\ newest)]

\* No Vec has been made on the arena.
NoVec ==
    /\ mem = << >>
    /\ vec = [alive |-> FALSE, ptr |-> 0, cap |-> 0, len |-> 0]
    /\ iter = << >>
    /\ drops = << >>
    /\ trail = << >>
    /\ vlast = << >>
    /\ taken = << >>
    /\ held = << >>

Init ==
    /\ NoVec
    /\ buf_base \in BufBases
    /\ buf_len \in 0..MaxBufLen
    /\ top = 0
    /\ high = 0
    /\ blocks = << >>
    /\ hist = Fresh
    /\ stuck = FALSE
    /\ last = [op |-> "new", res |-> "Ok", idx |-> 0, size |-> 0, align |-> 1,
               arg |-> 0, pre_top |-> 0, pre_high |-> 0, pre_len |-> buf_len]

----------------------------------------------------------------------------
(* The operations. *)

\* impl Alloc for LinearAlloc: alloc(layout)
Alloc(size, align) ==
    LET r == alloc(size, align)
    IN  IF r.ok
        THEN /\ Len(blocks) < MaxBlocks
             /\ top' = r.new_top
             /\ high' = alloc_new_high(high, r.new_top)
             /\ blocks' = Append(blocks,
                    [ptr |-> r.ptr, size |-> size, align |-> align])
             /\ hist' = HistAlloc(hist, size, r.block - top)
             /\ last' = Call("alloc", "Ok", r.block, size, align, 0)
             /\ UNCHANGED <<buf_base, buf_len, stuck>>
        ELSE /\ last' = Call("alloc", "Err", 0, size, align, 0)
             /\ UNCHANGED <<buf_base, buf_len, top, high, blocks, hist, stuck>>

\* impl Alloc for LinearAlloc: dealloc(ptr, layout), called once on a block
\* that alloc returned, with the layout the block has now
Dealloc(i) ==
    LET b         == blocks[i]
        block_idx == get_block_idx(b.ptr)
    IN  /\ top' = IF dealloc_is_top(block_idx, b.size) THEN block_idx ELSE top
        /\ blocks' = [j \in 1..(Len(blocks) - 1) |->
                          IF j < i THEN blocks[j] ELSE blocks[j + 1]]
        /\ hist' = HistDealloc(hist, i = Len(blocks))
        /\ stuck' = \/ stuck
                    \/ /\ hist'.phase = "dealloc"
                       /\ blocks' = << >>
                       /\ ~ hist'.lifo
                       /\ hist'.count >= 2
                       /\ hist'.nonempty
        /\ last' = Call("dealloc", "Ok", block_idx, b.size, b.align, 0)
        /\ UNCHANGED <<buf_base, buf_len, high>>

\* impl Alloc for LinearAlloc: grow_in_place(ptr, layout, new_size), called
\* on a live block with the layout the block has now
GrowInPlace(i, new_size) ==
    LET b            == blocks[i]
        block_idx    == get_block_idx(b.ptr)
        block_growth == new_size - b.size
    IN  /\ IF ~ grow_asserts(block_idx, b.size, b.align, new_size)
           THEN /\ last' = Call("grow_in_place", "Panic", block_idx, b.size,
                                b.align, new_size)
                /\ UNCHANGED <<top, blocks, hist>>
           ELSE IF ~ grow_has_space(block_growth)
                   \/ ~ grow_is_top(block_idx, b.size)
           THEN /\ last' = Call("grow_in_place", "Err", block_idx, b.size,
                                b.align, new_size)
                /\ UNCHANGED <<top, blocks, hist>>
           ELSE /\ top' = grow_new_top(block_growth)
                /\ blocks' = [blocks EXCEPT ![i].size = new_size]
                /\ hist' = Mixed
                /\ last' = Call("grow_in_place", "Ok", block_idx, b.size,
                                b.align, new_size)
        /\ UNCHANGED <<buf_base, buf_len, high, stuck>>

\* impl Alloc for LinearAlloc: shrink_in_place(ptr, layout, new_size)
ShrinkInPlace(i, new_size) ==
    LET b == blocks[i]
    IN  /\ last' = Call("shrink_in_place", "Err", get_block_idx(b.ptr),
                        b.size, b.align, new_size)
        /\ UNCHANGED <<buf_base, buf_len, top, high, blocks, hist, stuck>>

\* LinearAlloc::reset: every block is gone
Reset ==
    /\ top' = reset_top
    /\ blocks' = << >>
    /\ hist' = Fresh
    /\ stuck' = FALSE
    /\ last' = Call("reset", "Ok", 0, 0, 1, 0)
    /\ UNCHANGED <<buf_base, buf_len, high>>

\* LinearAlloc::reset_to: the blocks that end above the marker are gone
ResetTo(marker) ==
    IF reset_to(marker).ok
    THEN /\ top' = reset_to(marker).new_top
         /\ blocks' = SelectSeq(blocks,
                LAMBDA b : get_block_idx(b.ptr) + b.size <= marker)
         /\ hist' = Mixed
         /\ stuck' = FALSE
         /\ last' = Call("reset_to", "Ok", 0, 0, 1, marker)
         /\ UNCHANGED <<buf_base, buf_len, high>>
    ELSE /\ top' = reset_to(marker).new_top
         /\ last' = Call("reset_to", "Err", 0, 0, 1, marker)
         /\ UNCHANGED <<buf_base, buf_len, high, blocks, hist, stuck>>

Next ==
    \/ \E size \in Sizes, align \in Aligns :
           Alloc(size, align) /\ UNCHANGED vecVars
    \/ \E i \in 1..Len(blocks) : Dealloc(i) /\ UNCHANGED vecVars
    \/ \E i \in 1..Len(blocks), d \in 0..MaxGrow :
           GrowInPlace(i, blocks[i].size + d) /\ UNCHANGED vecVars
    \/ \E i \in 1..Len(blocks), n \in 0..MaxSize :
           n <= blocks[i].size /\ ShrinkInPlace(i, n) /\ UNCHANGED vecVars
    \/ Reset /\ UNCHANGED vecVars
    \/ \E marker \in 0..(buf_len + 1) : ResetTo(marker) /\ UNCHANGED vecVars

Spec == Init /\ [][Next]_vars

----------------------------------------------------------------------------
(* vec2::Vec<T> and raw_vec::RawVec<T>: bounds, the element type, memory. *)

MaxElems      == 3      \* elements made (pushed or inserted) in one behaviour
MaxArenaElems == 4      \* buf.len() is room for up to MaxArenaElems elements
MaxAdditional == 2      \* reserve and with_capacity are asked for 0..MaxAdditional
MaxTwoPushes  == 8      \* pushes on the two Vecs of one arena, together
MaxOther      == 1      \* blocks the other user of the arena holds at a time

\* mem::size_of::<T>() and mem::align_of::<T>() for the T = u32 of the tests
SizeOfT  == 4
AlignOfT == 4

Min(a, b) == IF a <= b THEN a ELSE b

\* the element of a set of one element; with {e(x) : x \in {d}} it names the
\* value d as x in e
The(S) == CHOOSE x \in S : TRUE

\* buf.len(): room for up to MaxArenaElems elements, or for a block of
\* MaxArenaElems elements next to one of half as many and one more element
ArenaLens ==
    {SizeOfT * k : k \in 0..MaxArenaElems}
        \cup {SizeOfT * (MaxArenaElems + (MaxArenaElems \div 2) + 1)}

\* the sizes the other user of the arena asks for, with alignment 1
OtherSizes == {1, SizeOfT}

\* NonNull::dangling(): the address align_of::<T>()
dangling == AlignOfT

\* Layout::array::<T>(n): the size, or None if it overflows usize
array_size(n) == IF n * SizeOfT > UsizeMax THEN None ELSE n * SizeOfT

\* The j-th byte of the element with identity id.  An element is one of
\* 1..MaxElems, made once; a byte that belongs to no element is 0.
ByteOf(id, j) == id * SizeOfT + j

\* ptr::write(buf + idx, id).  The access is to the bytes, whatever the
\* alignment of the address, as an unaligned store would do it.
write(m, idx, id) ==
    [a \in DOMAIN m |->
        IF a >= idx /\ a < idx + SizeOfT THEN ByteOf(id, a - idx) ELSE m[a]]

\* ptr::read(buf + idx): the element whose bytes lie there, or 0 if the
\* bytes are not those of one element
read(m, idx) ==
    IF /\ \A j \in 0..(SizeOfT - 1) : (idx + j) \in DOMAIN m
       /\ m[idx] >= SizeOfT
       /\ m[idx] % SizeOfT = 0
       /\ \A j \in 0..(SizeOfT - 1) : m[idx + j] = m[idx] + j
    THEN m[idx] \div SizeOfT
    ELSE 0

\* A copy that goes byte by byte from the low end, reading what it wrote.
RECURSIVE ptr_copy_forward(_, _, _, _)
ptr_copy_forward(m, src, dst, n) ==
    IF n = 0
    THEN m
    ELSE ptr_copy_forward([m EXCEPT ![dst] = m[src]], src + 1, dst + 1, n - 1)

\* ptr::copy(buf + src, buf + dst, n bytes): the ranges may overlap
ptr_copy(m, src, dst, n) ==
    [a \in DOMAIN m |->
        IF a >= dst /\ a < dst + n THEN m[src + (a - dst)] ELSE m[a]]

\* ptr::copy_nonoverlapping(buf + src, buf + dst, n bytes), on ranges that
\* are disjoint because they are two blocks of the arena
copy_nonoverlapping(m, src, dst, n) ==
    [a \in DOMAIN m |->
        IF a >= dst /\ a < dst + n THEN m[src + (a - dst)] ELSE m[a]]

\* the other user fills the block it was given
fill(m, idx, n) ==
    [a \in DOMAIN m |-> IF a >= idx /\ a < idx + n THEN 0 ELSE m[a]]

\* Deref for Vec: slice::from_raw_parts(self.buf.ptr(), self.len)
as_slice(m, v) ==
    [i \in 1..v.len |-> read(m, get_block_idx(v.ptr) + (i - 1) * SizeOfT)]

----------------------------------------------------------------------------
(* The allocator as RawVec calls it. *)

\* LinearAlloc::grow_in_place(ptr, layout, new_size) in the current state
grow_in_place(ptr, size, align, new_size) ==
    LET block_idx    == get_block_idx(ptr)
        block_growth == new_size - size
    IN  IF ~ grow_asserts(block_idx, size, align, new_size)
        THEN [res |-> "Panic", new_top |-> top]
        ELSE IF ~ grow_has_space(block_growth) \/ ~ grow_is_top(block_idx, size)
        THEN [res |-> "Err", new_top |-> top]
        ELSE [res |-> "Ok", new_top |-> grow_new_top(block_growth)]

\* A dealloc that rewinds to the block whether or not it is the topmost.
dealloc_top_unchecked(t, block_idx, size) == block_idx

\* LinearAlloc::dealloc(ptr, layout) when top is t: the new top
dealloc_top(t, block_idx, size) ==
    IF block_idx + size = t THEN block_idx ELSE t

\* A realloc that moves the block without its contents.
realloc_copy_nothing(old_size, new_size) == 0

\* cmp::min(old_size, new_size), the bytes realloc copies
realloc_copy_size(old_size, new_size) == Min(old_size, new_size)

\* Alloc::realloc, the trait's default body, which LinearAlloc does not
\* override: grow in place, or else alloc, copy and dealloc.  The result
\* carries the arena and the memory as the call leaves them.
realloc(ptr, size, align, new_size) ==
    The({
        IF g.res = "Panic"
        THEN [res |-> "Panic", ptr |-> ptr, top |-> top, high |-> high,
              mem |-> mem]
        ELSE IF g.res = "Ok"
        THEN [res |-> "Ok", ptr |-> ptr, top |-> g.new_top, high |-> high,
              mem |-> mem]
        ELSE IF r.ok
        THEN [res |-> "Ok", ptr |-> r.ptr,
              top |-> dealloc_top(r.new_top, get_block_idx(ptr), size),
              high |-> alloc_new_high(high, r.new_top),
              mem |-> copy_nonoverlapping(mem, get_block_idx(ptr), r.block,
                          realloc_copy_size(size, new_size))]
        ELSE [res |-> "Err", ptr |-> ptr, top |-> top, high |-> high,
              mem |-> mem]
        : g \in {grow_in_place(ptr, size, align, new_size)},
          r \in {alloc(new_size, align)}})

----------------------------------------------------------------------------
(* RawVec. *)

\* What a RawVec call leaves behind: the result, the RawVec's fields, the
\* arena and the memory.
RawRes(res, err, ptr, cap, t, h, m) ==
    [res |-> res, err |-> err, ptr |-> ptr, cap |-> cap, top |-> t,
     high |-> h, mem |-> m]

\* A reserve that records the new capacity before the allocator has agreed.
reserve_failed_keeps_new_cap(v, new_cap, err) ==
    RawRes("Err", err, v.ptr, new_cap, top, high, mem)

\* reserve returns early through `?`: nothing has been assigned
reserve_failed(v, new_cap, err) ==
    RawRes("Err", err, v.ptr, v.cap, top, high, mem)

\* A reserve that never records the capacity it obtained.
reserve_new_cap_stale(cap, additional) == cap

\* new_cap in reserve: 1 for the first allocation, else cap + additional
reserve_new_cap(cap, additional) ==
    IF cap = 0 THEN 1 ELSE checked_add(cap, additional)

\* A reserve that hands the allocator's refusal to its caller.
reserve_refused_gives_up(v, new_cap, r) ==
    RawRes("Err", "CannotReallocInPlace", v.ptr, v.cap, top, high, mem)

\* the else branch of reserve, grow_in_place having refused: realloc has
\* left r behind, and `?` returns its error
reserve_refused(v, new_cap, r) ==
    IF r.res = "Ok"
    THEN RawRes("Ok", "", r.ptr, new_cap, r.top, r.high, r.mem)
    ELSE IF r.res = "Err"
    THEN reserve_failed(v, new_cap, "AllocErr")
    ELSE RawRes("Panic", "", v.ptr, v.cap, top, high, mem)

\* RawVec::reserve(additional)
reserve(v, additional) ==
    IF v.cap = 0
    THEN The({
             IF size = None
             THEN RawRes("Panic", "", v.ptr, v.cap, top, high, mem)
             ELSE IF r.ok
             THEN RawRes("Ok", "", r.ptr, new_cap, r.new_top,
                         alloc_new_high(high, r.new_top), mem)
             ELSE reserve_failed(v, new_cap, "AllocErr")
             : new_cap \in {reserve_new_cap(v.cap, additional)},
               size \in {array_size(additional)},
               r \in {alloc(array_size(additional), AlignOfT)}})
    ELSE The({
             IF size = None
             THEN RawRes("Panic", "", v.ptr, v.cap, top, high, mem)
             ELSE IF new_cap = None
             THEN reserve_failed(v, v.cap, "SizeOverflowErr")
             ELSE IF new_size = None
             THEN RawRes("Panic", "", v.ptr, v.cap, top, high, mem)
             ELSE IF g.res = "Panic"
             THEN RawRes("Panic", "", v.ptr, v.cap, top, high, mem)
             ELSE IF g.res = "Ok"
             THEN RawRes("Ok", "", v.ptr, new_cap, g.new_top, high, mem)
             ELSE reserve_refused(v, new_cap, r)
             : new_cap \in {reserve_new_cap(v.cap, additional)},
               size \in {array_size(v.cap)},
               new_size \in {array_size(reserve_new_cap(v.cap, additional))},
               g \in {grow_in_place(v.ptr, array_size(v.cap), AlignOfT,
                          array_size(reserve_new_cap(v.cap, additional)))},
               r \in {realloc(v.ptr, array_size(v.cap), AlignOfT,
                          array_size(reserve_new_cap(v.cap, additional)))}})

\* the size of the block a successful reserve leaves the RawVec with: that
\* of `layout` on the first allocation, `new_size` afterwards
reserve_granted(v, additional) ==
    IF v.cap = 0
    THEN array_size(additional)
    ELSE array_size(reserve_new_cap(v.cap, additional))

\* the argument RawVec::grow passes to reserve
grow_additional(v) == IF v.cap = 0 THEN 1 ELSE v.cap

\* RawVec::grow asking for room for one more element only.
grow_by_one(v) == reserve(v, 1)

\* RawVec::grow
grow(v) == IF v.cap = 0 THEN reserve(v, 1) ELSE reserve(v, v.cap)

\* RawVec::with_capacity(alloc, capacity): a RawVec of capacity 0 that has
\* reserved `capacity`, here n
with_capacity(n) ==
    reserve([alive |-> TRUE, ptr |-> dangling, cap |-> 0, len |-> 0], n)

\* A Drop for RawVec that never hands its block back.
raw_vec_drop_top_keeps(v) == top

\* A Drop for RawVec that rewinds the whole arena.
raw_vec_drop_top_rewinds(v) == 0

\* Drop for RawVec: the new top
raw_vec_drop_top(v) ==
    IF v.cap # 0
    THEN IF dealloc_is_top(get_block_idx(v.ptr), array_size(v.cap))
         THEN get_block_idx(v.ptr)
         ELSE top
    ELSE top

----------------------------------------------------------------------------
(* Vec. *)

\* What a Vec call leaves behind: the result, the value it returns (0 if
\* none), the Vec's fields, the arena and the memory.
VecRes(res, err, ret, ptr, cap, len, t, h, m) ==
    [res |-> res, err |-> err, ret |-> ret, ptr |-> ptr, cap |-> cap,
     len |-> len, top |-> t, high |-> h, mem |-> m]

\* a call that leaves everything as it is
Untouched(res, v) ==
    VecRes(res, "", 0, v.ptr, v.cap, v.len, top, high, mem)

\* the index into buf of the Vec's slot i
slot(ptr, i) == get_block_idx(ptr) + i * SizeOfT

\* Vec::new: RawVec::new, len 0
new_vec == [alive |-> TRUE, ptr |-> dangling, cap |-> 0, len |-> 0]

\* if self.len == self.capacity() { self.buf.grow()?; }
grown(v) ==
    IF v.len = v.cap
    THEN grow(v)
    ELSE RawRes("Ok", "", v.ptr, v.cap, top, high, mem)

\* ptr::write(self.ptr().offset(self.len as isize), elem)
push_slot(len) == len

\* Vec::push(elem)
push(v, elem) ==
    The({
        IF g.res # "Ok"
        THEN VecRes(g.res, g.err, 0, g.ptr, g.cap, v.len, g.top, g.high,
                    g.mem)
        ELSE VecRes("Ok", "", 0, g.ptr, g.cap, v.len + 1, g.top, g.high,
                    write(g.mem, slot(g.ptr, push_slot(v.len)), elem))
        : g \in {grown(v)}})

\* A pop that reads the slot before it has decremented len.
pop_reads_before_decrement(v) ==
    IF v.len = 0
    THEN Untouched("None", v)
    ELSE VecRes("Some", "", read(mem, slot(v.ptr, v.len)), v.ptr, v.cap,
                v.len - 1, top, high, mem)

\* Vec::pop
pop(v) ==
    IF v.len = 0
    THEN Untouched("None", v)
    ELSE VecRes("Some", "", read(mem, slot(v.ptr, v.len - 1)), v.ptr, v.cap,
                v.len - 1, top, high, mem)

\* An insert that moves one element too few.
insert_copy_count_short(len, index) == len - index - 1

\* the count of the ptr::copy in insert: self.len - index
insert_copy_count(len, index) == len - index

\* Vec::insert(index, elem)
insert(v, index, elem) ==
    IF ~ (index <= v.len)
    THEN Untouched("Panic", v)
    ELSE The({
        IF g.res # "Ok"
        THEN VecRes(g.res, g.err, 0, g.ptr, g.cap, v.len, g.top, g.high,
                    g.mem)
        ELSE VecRes("Ok", "", 0, g.ptr, g.cap, v.len + 1, g.top, g.high,
                    write(IF index < v.len
                          THEN ptr_copy(g.mem, slot(g.ptr, index),
                                   slot(g.ptr, index + 1),
                                   insert_copy_count(v.len, index) * SizeOfT)
                          ELSE g.mem,
                          slot(g.ptr, index), elem))
        : g \in {grown(v)}})

\* Vec::remove(index)
remove(v, index) ==
    LET len == v.len - 1
    IN  IF ~ (index < v.len)
        THEN Untouched("Panic", v)
        ELSE VecRes("Ok", "", read(mem, slot(v.ptr, index)), v.ptr, v.cap,
                    len, top, high,
                    ptr_copy(mem, slot(v.ptr, index + 1), slot(v.ptr, index),
                             (len - index) * SizeOfT))

\* RawValIter::new(slice), as Vec::drain calls it
raw_val_iter(v) == [start |-> v.ptr, end |-> v.ptr + v.len * SizeOfT]

NoIter == [start |-> 0, end |-> 0]

\* The distance between the two cursors, in bytes instead of elements.
size_hint_in_bytes(it) == it.end - it.start

\* RawValIter::size_hint
size_hint(it) == (it.end - it.start) \div SizeOfT

\* RawValIter::next: the item (0 for None) and the iterator after it
next(m, it) ==
    IF it.start = it.end
    THEN [some |-> FALSE, item |-> 0, iter |-> it]
    ELSE [some |-> TRUE, item |-> read(m, get_block_idx(it.start)),
          iter |-> [it EXCEPT !.start = it.start + SizeOfT]]

\* RawValIter::next_back
next_back(m, it) ==
    IF it.start = it.end
    THEN [some |-> FALSE, item |-> 0, iter |-> it]
    ELSE [some |-> TRUE, item |-> read(m, get_block_idx(it.end - SizeOfT)),
          iter |-> [it EXCEPT !.end = it.end - SizeOfT]]

\* Vec::drain forgetting to empty the Vec it borrows.
drain_keeps_len(v) == [len |-> v.len, iter |-> raw_val_iter(v)]

\* Vec::drain: the Vec's new len and the Drain's iterator
drain(v) == [len |-> 0, iter |-> raw_val_iter(v)]

\* Vec::into_iter: the IntoIter's _buf and iter
into_iter(v) == [ptr |-> v.ptr, cap |-> v.cap, iter |-> raw_val_iter(v)]

\* The destructor loop of an iterator, taking one element only.
rest_takes_one(m, it) ==
    The({IF n.some THEN <<n.item>> ELSE << >> : n \in {next(m, it)}})

\* the elements `for _ in &mut *self {}` takes out of the iterator
RECURSIVE rest(_, _)
rest(m, it) ==
    The({IF n.some THEN <<n.item>> \o rest(m, n.iter) ELSE << >>
         : n \in {next(m, it)}})

\* The destructor loop, stopping one element short.
RECURSIVE popped_all_but_first(_)
popped_all_but_first(v) ==
    The({IF v.cap # 0 /\ v.len > 1
         THEN <<r.ret>> \o popped_all_but_first([v EXCEPT !.len = r.len])
         ELSE << >>
         : r \in {pop(v)}})

\* Drop for Vec: the elements that `while let Some(_) = self.pop() {}`
\* takes out and destroys
RECURSIVE popped(_)
popped(v) ==
    The({IF v.cap # 0 /\ r.res = "Some"
         THEN <<r.ret>> \o popped([v EXCEPT !.len = r.len])
         ELSE << >>
         : r \in {pop(v)}})

\* one step of a destructor: an element is destroyed, or a block is handed
\* back to the allocator
Destroyed_one(elem) ==
    [step |-> "drop_in_place", elem |-> elem, block |-> 0, size |-> 0]

Released(block, size) ==
    [step |-> "dealloc", elem |-> 0, block |-> block, size |-> size]

\* each element of s is destroyed, in the order of s
Destroys(s) == [i \in 1..Len(s) |-> Destroyed_one(s[i])]

\* Drop for RawVec, step by step: one dealloc of alloc_layout(), the whole
\* capacity, if there is a block
raw_vec_drop_steps(v) ==
    IF v.cap # 0
    THEN <<Released(get_block_idx(v.ptr), array_size(v.cap))>>
    ELSE << >>

\* A destructor that hands the block back before it destroys the elements.
vec_drop_steps_release_first(v) ==
    raw_vec_drop_steps(v) \o Destroys(popped(v))

\* the destruction of a Vec, step by step: the body of Drop for Vec, then
\* the destructor of its field buf
vec_drop_steps(v) ==
    Destroys(popped(v)) \o raw_vec_drop_steps(v)

\* the destruction of an IntoIter, step by step: the body of Drop for
\* IntoIter, then the destructor of its field _buf
into_iter_drop_steps(v, m, it) ==
    Destroys(rest(m, it)) \o raw_vec_drop_steps(v)

----------------------------------------------------------------------------
(* The caller's record of its calls on the Vec. *)

\* Drop has run once more for each element of s (2 stands for 2 or more).
RECURSIVE Dropped(_, _)
Dropped(d, s) ==
    IF s = << >>
    THEN d
    ELSE Dropped([i \in DOMAIN d |->
                     IF i = Head(s) THEN Min(d[i] + 1, 2) ELSE d[i]],
                 Tail(s))

NoPrev == [op |-> "none", idx |-> 0, elem |-> 0, pre |-> << >>]

\* The call, its arguments and result, the Vec and the arena before it, the
\* steps of a destructor, and the call before this one if that was a
\* successful push or insert.
VCall(op, res, idx, elem, ret) ==
    [op |-> op, res |-> res, err |-> "", idx |-> idx, elem |-> elem,
     ret |-> ret, pre |-> as_slice(mem, vec), pre_cap |-> vec.cap,
     pre_ptr |-> vec.ptr, pre_top |-> top, others |-> Len(blocks),
     steps |-> << >>,
     prev |-> IF /\ vec.alive
                 /\ vlast.op \in {"push", "insert"}
                 /\ vlast.res = "Ok"
              THEN [op |-> vlast.op, idx |-> vlast.idx, elem |-> vlast.elem,
                    pre |-> vlast.pre]
              ELSE NoPrev]

NoTrail == [only |-> FALSE, seq |-> << >>]

\* no Drain or IntoIter has been made
NoTaken == [by |-> "none", src |-> << >>, front |-> 0, back |-> 0,
            dropped |-> FALSE]

\* a Drain or an IntoIter has been made over the elements src
Made(by, src) == [by |-> by, src |-> src, front |-> 0, back |-> 0,
                  dropped |-> FALSE]

\* the iterator has answered a call at one of its ends
Yielded(some, at) ==
    IF ~ some
    THEN taken
    ELSE IF at = "front"
         THEN [taken EXCEPT !.front = taken.front + 1]
         ELSE [taken EXCEPT !.back = taken.back + 1]

InitVec ==
    /\ buf_base \in BufBases
    /\ buf_len \in ArenaLens
    /\ top = 0
    /\ high = 0
    /\ blocks = << >>
    /\ hist = Fresh
    /\ stuck = FALSE
    /\ last = [op |-> "new", res |-> "Ok", idx |-> 0, size |-> 0, align |-> 1,
               arg |-> 0, pre_top |-> 0, pre_high |-> 0, pre_len |-> buf_len]
    /\ mem = [a \in 0..(buf_len - 1) |-> 0]
    /\ vec = new_vec
    /\ iter = NoIter
    /\ drops = << >>
    /\ trail = [only |-> TRUE, seq |-> << >>]
    /\ vlast = [op |-> "new", res |-> "Ok", err |-> "", idx |-> 0, elem |-> 0,
                ret |-> 0, pre |-> << >>, pre_cap |-> 0, pre_ptr |-> dangling,
                pre_top |-> 0, others |-> 0, steps |-> << >>,
                prev |-> NoPrev]
    /\ taken = NoTaken
    /\ held = << >>

\* the Vec can be called: it is alive and no Drain borrows it
Usable == vec.alive /\ iter = NoIter

\* the call has left r behind
Leaves(r) ==
    /\ vec' = [vec EXCEPT !.ptr = r.ptr, !.cap = r.cap, !.len = r.len]
    /\ top' = r.top
    /\ high' = r.high
    /\ mem' = r.mem

----------------------------------------------------------------------------
(* The operations on the Vec. *)

\* Vec::push of a new element; if push fails the element is destroyed as
\* push returns or unwinds
Push ==
    /\ Usable
    /\ Len(drops) < MaxElems
    /\ \E elem \in {Len(drops) + 1} : \E r \in {push(vec, elem)} :
           /\ Leaves(r)
           /\ drops' = Append(drops, IF r.res = "Ok" THEN 0 ELSE 1)
           /\ trail' = IF r.res = "Ok" /\ trail.only
                       THEN [trail EXCEPT !.seq = Append(trail.seq, elem)]
                       ELSE NoTrail
           /\ vlast' = [VCall("push", r.res, 0, elem, 0) EXCEPT !.err = r.err]
    /\ taken' = NoTaken
    /\ UNCHANGED held
    /\ UNCHANGED <<buf_base, buf_len, blocks, hist, stuck, last, iter>>

\* Vec::pop; the element goes to the caller
Pop ==
    /\ Usable
    /\ \E r \in {pop(vec)} :
           /\ Leaves(r)
           /\ vlast' = VCall("pop", r.res, 0, 0, r.ret)
    /\ trail' = NoTrail
    /\ taken' = NoTaken
    /\ UNCHANGED held
    /\ UNCHANGED <<buf_base, buf_len, blocks, hist, stuck, last, iter, drops>>

\* Vec::insert of a new element
Insert(index) ==
    /\ Usable
    /\ Len(drops) < MaxElems
    /\ \E elem \in {Len(drops) + 1} : \E r \in {insert(vec, index, elem)} :
           /\ Leaves(r)
           /\ drops' = Append(drops, IF r.res = "Ok" THEN 0 ELSE 1)
           /\ vlast' = [VCall("insert", r.res, index, elem, 0)
                            EXCEPT !.err = r.err]
    /\ trail' = NoTrail
    /\ taken' = NoTaken
    /\ UNCHANGED held
    /\ UNCHANGED <<buf_base, buf_len, blocks, hist, stuck, last, iter>>

\* Vec::remove; the element goes to the caller
Remove(index) ==
    /\ Usable
    /\ \E r \in {remove(vec, index)} :
           /\ Leaves(r)
           /\ vlast' = VCall("remove", r.res, index, 0, r.ret)
    /\ trail' = NoTrail
    /\ taken' = NoTaken
    /\ UNCHANGED held
    /\ UNCHANGED <<buf_base, buf_len, blocks, hist, stuck, last, iter, drops>>

\* Vec::drain
Drain ==
    /\ Usable
    /\ \E d \in {drain(vec)} :
           /\ iter' = d.iter
           /\ vec' = [vec EXCEPT !.len = d.len]
    /\ trail' = NoTrail
    /\ vlast' = VCall("drain", "Ok", 0, 0, 0)
    /\ taken' = Made("drain", as_slice(mem, vec))
    /\ UNCHANGED held
    /\ UNCHANGED <<buf_base, buf_len, top, high, blocks, hist, stuck, last,
                   mem, drops>>

\* Drain::next; the element goes to the caller
DrainNext ==
    /\ vec.alive /\ iter # NoIter
    /\ \E n \in {next(mem, iter)} :
           /\ iter' = n.iter
           /\ vlast' = VCall("next", IF n.some THEN "Some" ELSE "None", 0, 0,
                             n.item)
           /\ taken' = Yielded(n.some, "front")
    /\ UNCHANGED held
    /\ UNCHANGED <<buf_base, buf_len, top, high, blocks, hist, stuck, last,
                   mem, vec, drops, trail>>

\* Drain::next_back; the element goes to the caller
DrainNextBack ==
    /\ vec.alive /\ iter # NoIter
    /\ \E n \in {next_back(mem, iter)} :
           /\ iter' = n.iter
           /\ vlast' = VCall("next_back", IF n.some THEN "Some" ELSE "None",
                             0, 0, n.item)
           /\ taken' = Yielded(n.some, "back")
    /\ UNCHANGED held
    /\ UNCHANGED <<buf_base, buf_len, top, high, blocks, hist, stuck, last,
                   mem, vec, drops, trail>>

\* Drop for Drain: the elements it has not yielded are destroyed
DrainDrop ==
    /\ vec.alive /\ iter # NoIter
    /\ drops' = Dropped(drops, rest(mem, iter))
    /\ iter' = NoIter
    /\ vlast' = VCall("drain_drop", "Ok", 0, 0, 0)
    /\ taken' = [taken EXCEPT !.dropped = TRUE]
    /\ UNCHANGED held
    /\ UNCHANGED <<buf_base, buf_len, top, high, blocks, hist, stuck, last,
                   mem, vec, trail>>

\* Vec::into_iter: the Vec is forgotten, its RawVec and a RawValIter over
\* its slice go to the IntoIter
IntoIter ==
    /\ Usable
    /\ \E d \in {into_iter(vec)} :
           /\ iter' = d.iter
           /\ vec' = [alive |-> FALSE, ptr |-> d.ptr, cap |-> d.cap,
                      len |-> 0]
    /\ trail' = NoTrail
    /\ vlast' = VCall("into_iter", "Ok", 0, 0, 0)
    /\ taken' = Made("into_iter", as_slice(mem, vec))
    /\ UNCHANGED held
    /\ UNCHANGED <<buf_base, buf_len, top, high, blocks, hist, stuck, last,
                   mem, drops>>

\* IntoIter::next; the element goes to the caller
IntoIterNext ==
    /\ ~ vec.alive /\ iter # NoIter
    /\ \E n \in {next(mem, iter)} :
           /\ iter' = n.iter
           /\ vlast' = VCall("next", IF n.some THEN "Some" ELSE "None", 0, 0,
                             n.item)
           /\ taken' = Yielded(n.some, "front")
    /\ UNCHANGED held
    /\ UNCHANGED <<buf_base, buf_len, top, high, blocks, hist, stuck, last,
                   mem, vec, drops, trail>>

\* IntoIter::next_back; the element goes to the caller
IntoIterNextBack ==
    /\ ~ vec.alive /\ iter # NoIter
    /\ \E n \in {next_back(mem, iter)} :
           /\ iter' = n.iter
           /\ vlast' = VCall("next_back", IF n.some THEN "Some" ELSE "None",
                             0, 0, n.item)
           /\ taken' = Yielded(n.some, "back")
    /\ UNCHANGED held
    /\ UNCHANGED <<buf_base, buf_len, top, high, blocks, hist, stuck, last,
                   mem, vec, drops, trail>>

\* Drop for IntoIter: the elements it has not yielded are destroyed, then
\* Drop for its RawVec releases the buffer
IntoIterDrop ==
    /\ ~ vec.alive /\ iter # NoIter
    /\ drops' = Dropped(drops, rest(mem, iter))
    /\ top' = raw_vec_drop_top(vec)
    /\ vec' = [alive |-> FALSE, ptr |-> dangling, cap |-> 0, len |-> 0]
    /\ iter' = NoIter
    /\ vlast' = [VCall("into_iter_drop", "Ok", 0, 0, 0)
                     EXCEPT !.steps = into_iter_drop_steps(vec, mem, iter)]
    /\ taken' = [taken EXCEPT !.dropped = TRUE]
    /\ UNCHANGED held
    /\ UNCHANGED <<buf_base, buf_len, high, blocks, hist, stuck, last, mem,
                   trail>>

\* Drop for Vec, then Drop for its RawVec
VecDrop ==
    /\ Usable
    /\ drops' = Dropped(drops, popped(vec))
    /\ top' = raw_vec_drop_top(vec)
    /\ vec' = [alive |-> FALSE, ptr |-> dangling, cap |-> 0, len |-> 0]
    /\ trail' = NoTrail
    /\ vlast' = [VCall("drop", "Ok", 0, 0, 0)
                     EXCEPT !.steps = vec_drop_steps(vec)]
    /\ UNCHANGED <<taken, held>>
    /\ UNCHANGED <<buf_base, buf_len, high, blocks, hist, stuck, last, mem,
                   iter>>

\* the other user of the arena allocates a block and fills it
OtherAlloc(size) ==
    /\ Len(blocks) < MaxOther
    /\ \E r \in {alloc(size, 1)} :
           /\ r.ok
           /\ top' = r.new_top
           /\ high' = alloc_new_high(high, r.new_top)
           /\ blocks' = Append(blocks,
                  [ptr |-> r.ptr, size |-> size, align |-> 1])
           /\ mem' = fill(mem, r.block, size)
    /\ UNCHANGED <<taken, held>>
    /\ UNCHANGED <<buf_base, buf_len, hist, stuck, last, vec, iter, drops,
                   trail, vlast>>

NextVec ==
    \/ Push
    \/ Pop
    \/ \E index \in 0..(vec.len + 1) : Insert(index)
    \/ \E index \in 0..vec.len : Remove(index)
    \/ Drain
    \/ DrainNext
    \/ DrainNextBack
    \/ DrainDrop
    \/ VecDrop
    \/ \E size \in OtherSizes : OtherAlloc(size)

SpecVec == InitVec /\ [][NextVec]_allVars

----------------------------------------------------------------------------
(* Two Vecs, v and w, on one LinearAlloc.  Here vec is the pair of the two *)
(* Vecs and trail the pair of the sequences pushed on them.                *)

\* the lengths of the arena: room for the blocks of one, two and four
\* alternating pushes on each Vec (56 bytes in check_two_vectors_one_alloc)
TwoArenaLens == {SizeOfT * k : k \in {2, 6, 14}}

\* The push on Vec number who, its result, what that Vec and the arena were
\* before it; alt says the two Vecs have taken strict turns since the arena
\* was made, asked is the total of the sizes of the blocks the two have
\* obtained from the allocator.
TwoCall(who, r) ==
    [op |-> "push", who |-> who, res |-> r.res,
     pre_ptr |-> vec[who].ptr, pre_cap |-> vec[who].cap, pre_top |-> top,
     alt |-> (vlast.alt /\ vlast.who # who),
     asked |-> IF r.res = "Ok" /\ r.ptr # vec[who].ptr
               THEN vlast.asked + array_size(r.cap)
               ELSE IF r.res = "Ok" /\ r.cap # vec[who].cap
               THEN vlast.asked + array_size(r.cap)
                        - array_size(vec[who].cap)
               ELSE vlast.asked]

InitTwo ==
    /\ buf_base \in BufBases
    /\ buf_len \in TwoArenaLens
    /\ top = 0
    /\ high = 0
    /\ blocks = << >>
    /\ hist = Fresh
    /\ stuck = FALSE
    /\ last = [op |-> "new", res |-> "Ok", idx |-> 0, size |-> 0, align |-> 1,
               arg |-> 0, pre_top |-> 0, pre_high |-> 0, pre_len |-> buf_len]
    /\ mem = [a \in 0..(buf_len - 1) |-> 0]
    /\ vec = <<new_vec, new_vec>>
    /\ iter = NoIter
    /\ drops = << >>
    /\ trail = << << >>, << >> >>
    /\ taken = NoTaken
    /\ held = << >>
    /\ vlast = [op |-> "new", who |-> 0, res |-> "Ok", pre_ptr |-> dangling,
                pre_cap |-> 0, pre_top |-> 0, alt |-> TRUE, asked |-> 0]

\* v.push (who = 1) or w.push (who = 2) of a new element
PushOn(who) ==
    /\ Len(drops) < MaxTwoPushes
    /\ \E elem \in {Len(drops) + 1} : \E r \in {push(vec[who], elem)} :
           /\ vec' = [vec EXCEPT ![who] =
                         [@ EXCEPT !.ptr = r.ptr, !.cap = r.cap,
                                   !.len = r.len]]
           /\ top' = r.top
           /\ high' = r.high
           /\ mem' = r.mem
           /\ drops' = Append(drops, IF r.res = "Ok" THEN 0 ELSE 1)
           /\ trail' = IF r.res = "Ok"
                       THEN [trail EXCEPT ![who] = Append(@, elem)]
                       ELSE trail
           /\ vlast' = TwoCall(who, r)
    /\ UNCHANGED <<buf_base, buf_len, blocks, hist, stuck, last, iter, taken,
                   held>>

NextTwo == \E who \in 1..2 : PushOn(who)

SpecTwo == InitTwo /\ [][NextTwo]_allVars

----------------------------------------------------------------------------
(* stack_alloc::StackAlloc, the allocator that rounds a block's address    *)
(* down.  Its fields are top and high over the same buf; blocks and last   *)
(* are its caller's record.                                                *)

\* layout.size() as the caller of StackAlloc chooses it: blocks of one byte
\* or more, and a size that cannot fit
StackSizes == (1..(MaxSize + 1)) \cup {UsizeMax}

\* A step that rounds the address up to the alignment boundary.
stack_align_block_base_up(block_base, align) ==
    ((block_base + align - 1) \div align) * align

\* let block_base = block_base - (block_base % layout.align());
stack_align_block_base(block_base, align) ==
    block_base - (block_base % align)

\* StackAlloc::alloc in the current state.  When the address rounds down to
\* one below buf the subtraction `block_base - buf_base` underflows.
stack_alloc(size, align) ==
    IF top = buf_len
    THEN [res |-> "Err", ptr |-> 0, block |-> 0, new_top |-> top]
    ELSE The({
        IF block_base < buf_base
        THEN [res |-> "Underflow", ptr |-> 0, block |-> 0, new_top |-> top]
        ELSE IF alloc_in_bounds(block_base - buf_base,
                                checked_add(block_base - buf_base, size))
        THEN [res |-> "Ok", ptr |-> block_base,
              block |-> block_base - buf_base,
              new_top |-> checked_add(block_base - buf_base, size)]
        ELSE [res |-> "Err", ptr |-> 0, block |-> 0, new_top |-> top]
        : block_base \in {stack_align_block_base(buf_base + top, align)}})

\* what an arithmetic underflow or a failed debug_assert! gives: a panic in
\* a build with the checks, the error of the bounds check without them
Unchecked == {"Panic", "Err"}

InitStack ==
    /\ NoVec
    /\ buf_base \in BufBases
    /\ buf_len \in 0..MaxBufLen
    /\ top = 0
    /\ high = 0
    /\ blocks = << >>
    /\ hist = Fresh
    /\ stuck = FALSE
    /\ last = [op |-> "new", res |-> "Ok", idx |-> 0, size |-> 0, align |-> 1,
               arg |-> 0, pre_top |-> 0, pre_high |-> 0, pre_len |-> buf_len]

\* impl Alloc for StackAlloc: alloc(layout)
StackAlloc_alloc(size, align) ==
    /\ \E r \in {stack_alloc(size, align)} :
           IF r.res = "Ok"
           THEN /\ Len(blocks) < MaxBlocks
                /\ top' = r.new_top
                /\ high' = Max(high, r.new_top)
                /\ blocks' = Append(blocks,
                       [ptr |-> r.ptr, size |-> size, align |-> align])
                /\ last' = Call("alloc", "Ok", r.block, size, align, 0)
           ELSE /\ \E res \in (IF r.res = "Underflow"
                                THEN Unchecked
                                ELSE {"Err"}) :
                       last' = Call("alloc", res, 0, size, align, 0)
                /\ UNCHANGED <<top, high, blocks>>
    /\ UNCHANGED <<buf_base, buf_len, hist, stuck>>

\* impl Alloc for StackAlloc: dealloc(ptr, layout), called once on a block
\* that alloc returned, with the layout the block has now
StackAlloc_dealloc(i) ==
    /\ \E b \in {blocks[i]} :
           /\ top' = dealloc_top(top, get_block_idx(b.ptr), b.size)
           /\ last' = Call("dealloc", "Ok", get_block_idx(b.ptr), b.size,
                           b.align, 0)
    /\ blocks' = [j \in 1..(Len(blocks) - 1) |->
                     IF j < i THEN blocks[j] ELSE blocks[j + 1]]
    /\ UNCHANGED <<buf_base, buf_len, high, hist, stuck>>

\* impl Alloc for StackAlloc: grow_in_place(ptr, layout, new_size), called on
\* a live block with the layout the block has now
StackAlloc_grow_in_place(i, new_size) ==
    /\ \E b \in {blocks[i]} : \E block_idx \in {get_block_idx(b.ptr)} :
           IF b.size >= new_size
           THEN /\ \E res \in Unchecked :
                       last' = Call("grow_in_place", res, block_idx, b.size,
                                    b.align, new_size)
                /\ UNCHANGED <<top, blocks>>
           ELSE IF \/ capacity - bytes_in_use < new_size - b.size
                   \/ block_idx >= buf_len
                   \/ block_idx + b.size # top
           THEN /\ last' = Call("grow_in_place", "Err", block_idx, b.size,
                                b.align, new_size)
                /\ UNCHANGED <<top, blocks>>
           ELSE /\ top' = top + (new_size - b.size)
                /\ blocks' = [blocks EXCEPT ![i].size = new_size]
                /\ last' = Call("grow_in_place", "Ok", block_idx, b.size,
                                b.align, new_size)
    /\ UNCHANGED <<buf_base, buf_len, high, hist, stuck>>

\* StackAlloc::reset: every block is gone
StackAlloc_reset ==
    /\ top' = 0
    /\ blocks' = << >>
    /\ last' = Call("reset", "Ok", 0, 0, 1, 0)
    /\ UNCHANGED <<buf_base, buf_len, high, hist, stuck>>

NextStack ==
    \/ \E size \in StackSizes, align \in Aligns :
           StackAlloc_alloc(size, align) /\ UNCHANGED vecVars
    \/ \E i \in 1..Len(blocks) : StackAlloc_dealloc(i) /\ UNCHANGED vecVars
    \/ \E i \in 1..Len(blocks), d \in 0..MaxGrow :
           StackAlloc_grow_in_place(i, blocks[i].size + d)
               /\ UNCHANGED vecVars
    \/ StackAlloc_reset /\ UNCHANGED vecVars

SpecStack == InitStack /\ [][NextStack]_vars

----------------------------------------------------------------------------
(* The operations on a RawVec that its owner calls directly. *)

\* The call on the RawVec, its argument and result, and what the RawVec and
\* the arena were before it; others is the number of blocks the other user
\* held then.
RawCall(op, res, arg) ==
    [op |-> op, res |-> res, err |-> "", arg |-> arg, pre_cap |-> vec.cap,
     pre_ptr |-> vec.ptr, pre_top |-> top, pre_high |-> high,
     pre_held |-> held, others |-> Len(blocks)]

\* `additional` as the owner of the RawVec chooses it: small, the largest
\* count whose bytes fit a word, and usize::MAX
Additionals == (0..MaxAdditional) \cup {UsizeMax \div SizeOfT, UsizeMax}

InitRaw ==
    /\ buf_base \in BufBases
    /\ buf_len \in ArenaLens
    /\ top = 0
    /\ high = 0
    /\ blocks = << >>
    /\ hist = Fresh
    /\ stuck = FALSE
    /\ last = [op |-> "new", res |-> "Ok", idx |-> 0, size |-> 0, align |-> 1,
               arg |-> 0, pre_top |-> 0, pre_high |-> 0, pre_len |-> buf_len]
    /\ mem = [a \in 0..(buf_len - 1) |-> 0]
    /\ vec = new_vec
    /\ iter = NoIter
    /\ drops = << >>
    /\ trail = NoTrail
    /\ taken = NoTaken
    /\ held = None
    /\ vlast = [op |-> "new", res |-> "Ok", err |-> "", arg |-> 0,
                pre_cap |-> 0,
                pre_ptr |-> dangling, pre_top |-> 0, pre_high |-> 0,
                pre_held |-> None, others |-> 0]

\* RawVec::new (Vec::new), once the last RawVec is gone
RawNew ==
    /\ ~ vec.alive
    /\ vec' = new_vec
    /\ held' = None
    /\ vlast' = RawCall("new", "Ok", 0)
    /\ UNCHANGED <<buf_base, buf_len, top, high, blocks, hist, stuck, last,
                   mem, iter, drops, trail, taken>>

\* RawVec::with_capacity, once the last RawVec is gone; on Err no RawVec is
\* returned
RawWithCapacity(n) ==
    /\ ~ vec.alive
    /\ \E r \in {with_capacity(n)} :
           /\ vec' = IF r.res = "Ok"
                     THEN [alive |-> TRUE, ptr |-> r.ptr, cap |-> r.cap,
                           len |-> 0]
                     ELSE vec
           /\ top' = r.top
           /\ high' = r.high
           /\ mem' = r.mem
           /\ held' = IF r.res = "Ok"
                      THEN reserve_granted(new_vec, n)
                      ELSE None
           /\ vlast' = [RawCall("with_capacity", r.res, n)
                           EXCEPT !.err = r.err]
    /\ UNCHANGED <<buf_base, buf_len, blocks, hist, stuck, last, iter, drops,
                   trail, taken>>

\* RawVec::reserve(additional)
RawReserve(additional) ==
    /\ vec.alive
    /\ \E r \in {reserve(vec, additional)} :
           /\ vec' = [vec EXCEPT !.ptr = r.ptr, !.cap = r.cap]
           /\ top' = r.top
           /\ high' = r.high
           /\ mem' = r.mem
           /\ held' = IF r.res = "Ok"
                      THEN reserve_granted(vec, additional)
                      ELSE held
           /\ vlast' = [RawCall("reserve", r.res, additional)
                           EXCEPT !.err = r.err]
    /\ UNCHANGED <<buf_base, buf_len, blocks, hist, stuck, last, iter, drops,
                   trail, taken>>

\* RawVec::grow
RawGrow ==
    /\ vec.alive
    /\ \E r \in {grow(vec)} :
           /\ vec' = [vec EXCEPT !.ptr = r.ptr, !.cap = r.cap]
           /\ top' = r.top
           /\ high' = r.high
           /\ mem' = r.mem
           /\ held' = IF r.res = "Ok"
                      THEN reserve_granted(vec, grow_additional(vec))
                      ELSE held
           /\ vlast' = [RawCall("grow", r.res, grow_additional(vec))
                           EXCEPT !.err = r.err]
    /\ UNCHANGED <<buf_base, buf_len, blocks, hist, stuck, last, iter, drops,
                   trail, taken>>

\* Drop for RawVec
RawDrop ==
    /\ vec.alive
    /\ top' = raw_vec_drop_top(vec)
    /\ vec' = [alive |-> FALSE, ptr |-> dangling, cap |-> 0, len |-> 0]
    /\ held' = None
    /\ vlast' = RawCall("drop", "Ok", 0)
    /\ UNCHANGED <<buf_base, buf_len, high, blocks, hist, stuck, last, mem,
                   iter, drops, trail, taken>>

NextRaw ==
    \/ RawNew
    \/ \E n \in Additionals : RawWithCapacity(n)
    \/ \E additional \in Additionals : RawReserve(additional)
    \/ RawGrow
    \/ RawDrop
    \/ \E size \in OtherSizes : OtherAlloc(size)

SpecRaw == InitRaw /\ [][NextRaw]_allVars

\* A Vec that is filled by push and emptied through its iterators.
NextIter ==
    \/ Push
    \/ Drain
    \/ DrainNext
    \/ DrainNextBack
    \/ DrainDrop
    \/ IntoIter
    \/ IntoIterNext
    \/ IntoIterNextBack
    \/ IntoIterDrop
    \/ VecDrop
    \/ \E size \in OtherSizes : OtherAlloc(size)

SpecIter == InitVec /\ [][NextIter]_allVars

----------------------------------------------------------------------------
(* The claims. *)

\* The least multiple of align that is >= addr.
AlignUp(addr, align) == ((addr + align - 1) \div align) * align

AllocOk == last.op = "alloc" /\ last.res = "Ok"

\* buf starts at a multiple of every alignment, so that a block's address and
\* its offset in buf are aligned alike.
BufAligned == \A a \in Aligns : buf_base % a = 0

\* C1: in every reachable state high_water_mark() >= bytes_in_use(), also
\* right after a successful grow_in_place.
C1_HighWaterMarkCoversInUse == high_water_mark >= bytes_in_use

\* C2: in every reachable state 0 <= bytes_in_use() <= capacity().
C2_InUseWithinCapacity == 0 <= bytes_in_use /\ bytes_in_use <= capacity

\* C2 witness: a grow_in_place has filled a non-empty arena to the brim.
C2_Witness ==
    /\ last.op = "grow_in_place" /\ last.res = "Ok"
    /\ capacity > 0
    /\ bytes_in_use = capacity
    /\ last.pre_top < capacity

\* C3: the block a successful alloc returns starts at a multiple of align,
\* the least one at or above the old top.  Stated for a non-empty block in
\* an aligned buf.
C3_AllocStartAligned ==
    (AllocOk /\ BufAligned /\ last.size >= 1) =>
        /\ (buf_base + last.idx) % last.align = 0
        /\ buf_base + last.idx = AlignUp(buf_base + last.pre_top, last.align)

\* C4: a successful alloc returns a start s >= the old top, sets top to
\* s + size and high to max(old high, new top); so while only allocs have
\* been made on an empty arena, bytes_in_use() is the sum of the sizes and of
\* the padding before each block.
C4_AllocAdvancesTop ==
    /\ AllocOk =>
           /\ last.idx >= last.pre_top
           /\ top = last.idx + last.size
           /\ high = Max(last.pre_high, top)
    /\ hist.phase = "alloc" => bytes_in_use = hist.sum

\* C4 witness: the second alloc of a run of allocs, made above some padding
\* and below the high-water mark of an earlier run.
C4_Witness ==
    /\ AllocOk
    /\ last.idx > last.pre_top
    /\ last.size > 0
    /\ hist.phase = "alloc" /\ hist.count = 2
    /\ high > top

\* C5: alloc fails exactly when top = capacity or the aligned start plus size
\* exceeds capacity.  Stated for a non-empty request on an aligned buf.
C5_AllocFailsExactlyWhenFull ==
    (last.op = "alloc" /\ BufAligned /\ last.size >= 1) =>
        LET start == AlignUp(buf_base + last.pre_top, last.align) - buf_base
        IN  (last.res = "Err") <=>
                \/ last.pre_top = capacity
                \/ start + last.size > capacity

\* C6: dealloc(offset, size) sets top = offset when offset + size = top and
\* leaves top alone otherwise; high_water_mark and capacity do not change and
\* no error is reported.
C6_DeallocPopsOnlyTheTop ==
    last.op = "dealloc" =>
        /\ last.res = "Ok"
        /\ top = IF last.idx + last.size = last.pre_top
                 THEN last.idx ELSE last.pre_top
        /\ high = last.pre_high
        /\ capacity = last.pre_len

\* C6 witness: a dealloc popped the top block, below the high-water mark.
C6_Witness ==
    /\ last.op = "dealloc"
    /\ last.size > 0
    /\ last.idx + last.size = last.pre_top
    /\ top < last.pre_top
    /\ high > top

\* C7: after allocs on an empty arena, freeing every block in strict reverse
\* order brings bytes_in_use() back to 0.  Stated for non-empty blocks in an
\* aligned buf.
C7_ReverseOrderFreesAll ==
    (/\ hist.phase = "dealloc" /\ hist.lifo /\ blocks = << >>
     /\ BufAligned /\ hist.nonempty)
        => bytes_in_use = 0

\* C8: two or more non-empty blocks allocated on an empty arena and each
\* freed once, in an order that is not the strict reverse one, leave
\* bytes_in_use() > 0 until reset or a successful reset_to.
C8_OutOfOrderLeavesBytes == stuck => bytes_in_use > 0

\* C8 witness: after such a run, a further block was allocated and freed.
C8_Witness ==
    /\ stuck
    /\ hist.phase = "mixed"
    /\ last.op = "dealloc"
    /\ top < last.pre_top

\* C9: for a live block and new_size >= old_size, grow_in_place succeeds
\* exactly when the block ends at top and the free space covers the growth;
\* on success top grows by new_size - old_size.  Stated for a non-empty block
\* in an aligned buf.
C9_GrowInPlaceIffTopAndRoom ==
    (last.op = "grow_in_place" /\ BufAligned /\ last.size >= 1) =>
        /\ (last.res = "Ok") <=>
               /\ last.idx + last.size = last.pre_top
               /\ last.pre_len - last.pre_top >= last.arg - last.size
        /\ last.res = "Ok" => top = last.pre_top + (last.arg - last.size)

\* C10: reset_to(marker) fails when the marker is above top or above
\* capacity, and otherwise (marker <= top) succeeds and sets bytes_in_use()
\* to the marker.  Stated for a non-empty buf.
C10_ResetToAcceptsMarkersUpToTop ==
    (last.op = "reset_to" /\ capacity > 0) =>
        /\ (last.arg > last.pre_top \/ last.arg > capacity)
               => last.res = "Err"
        /\ last.arg <= last.pre_top
               => (last.res = "Ok" /\ bytes_in_use = last.arg)

\* C11: an operation that reports failure (alloc, grow_in_place,
\* shrink_in_place, reset_to) leaves top and high as they were.
C11_FailureLeavesArenaUnchanged ==
    last.res = "Err" => (top = last.pre_top /\ high = last.pre_high)

\* C11 witness: reset_to refused a marker above the top of a used arena.
C11_Witness ==
    /\ last.op = "reset_to" /\ last.res = "Err"
    /\ last.arg > last.pre_top
    /\ last.arg <= capacity
    /\ top > 0

\* C12: no operation, successful or not, lowers high_water_mark().
C12_HighWaterMarkNeverDecreases == high_water_mark >= last.pre_high

\* C12 witness: an alloc ended below the high-water mark.
C12_Witness ==
    /\ AllocOk
    /\ last.size > 0
    /\ top < high
    /\ high = last.pre_high

\* C13: reset() sets bytes_in_use() to 0 from any state, cannot fail and
\* leaves high_water_mark() and capacity() unchanged.
C13_ResetEmptiesArena ==
    last.op = "reset" =>
        /\ last.res = "Ok"
        /\ bytes_in_use = 0
        /\ high_water_mark = last.pre_high
        /\ capacity = last.pre_len

\* C13 witness: reset of an arena that was in use.
C13_Witness ==
    /\ last.op = "reset"
    /\ last.pre_top > 0
    /\ blocks = << >>
    /\ high_water_mark > 0


\* C16: in every reachable state of a Vec, len() <= capacity().
C16_LenWithinCapacity == vec.len <= vec.cap

\* C14: after pushes that all returned Ok on a Vec made by Vec::new,
\* as_slice() is the pushed values in push order and len() is their number.
C14_PushesAppend ==
    trail.only =>
        /\ as_slice(mem, vec) = trail.seq
        /\ vec.len = Len(trail.seq)

\* C14 witness: three pushes, one of which moved the buffer of two elements
\* (the bytes of the first two are still where the buffer was).
C14_Witness ==
    /\ trail.only
    /\ Len(trail.seq) >= 3
    /\ \E a \in 0..(get_block_idx(vec.ptr) - 2 * SizeOfT) :
           /\ read(mem, a) = trail.seq[1]
           /\ read(mem, a + SizeOfT) = trail.seq[2]

\* C15: a push or insert whose growth fails returns the error and leaves
\* len(), capacity(), the buffer handle and as_slice() as they were; the new
\* element is not stored.
C15_FailedGrowthLeavesVec ==
    (vlast.op \in {"push", "insert"} /\ vlast.res = "Err") =>
        /\ vec.len = Len(vlast.pre)
        /\ vec.cap = vlast.pre_cap
        /\ vec.ptr = vlast.pre_ptr
        /\ as_slice(mem, vec) = vlast.pre
        /\ \A i \in 1..vec.len : as_slice(mem, vec)[i] # vlast.elem

\* C15 witness: an insert into a full Vec of two elements found no room.
C15_Witness ==
    /\ vlast.op = "insert" /\ vlast.res = "Err"
    /\ Len(vlast.pre) >= 2
    /\ vlast.idx < Len(vlast.pre)

\* C16 witness: a Vec that is full after it has grown twice.
C16_Witness ==
    /\ vec.alive
    /\ vec.len = vec.cap
    /\ vec.cap >= 2
    /\ vlast.op = "insert" /\ vlast.res = "Ok"

\* C17: destroying a Vec runs Drop once for each element it holds, and for
\* no element before that.
C17_DropDestroysEachOnce ==
    /\ vlast.op = "drop" =>
           \A i \in 1..Len(vlast.pre) : drops[vlast.pre[i]] = 1
    /\ \A i \in 1..vec.len :
           as_slice(mem, vec)[i] \in DOMAIN drops
               /\ drops[as_slice(mem, vec)[i]] = 0

\* C17 witness: a Vec of three elements, whose buffer had moved (the bytes
\* of an element are still where the buffer was), is destroyed.
C17_Witness ==
    /\ vlast.op = "drop"
    /\ Len(vlast.pre) >= 3
    /\ \E a \in 0..(get_block_idx(vlast.pre_ptr) - SizeOfT) :
           read(mem, a) \in {vlast.pre[i] : i \in 1..Len(vlast.pre)}

\* C18: a successful insert(index, x) with index <= len puts x at index in
\* front of the elements that were at index and after; remove(index) with
\* index < len returns the element at index and closes the gap; the other
\* elements keep their order, and len() moves by one.
C18_InsertAndRemoveShift ==
    /\ (vlast.op = "insert" /\ vlast.res = "Ok") =>
           /\ vlast.idx <= Len(vlast.pre)
           /\ as_slice(mem, vec) =
                  SubSeq(vlast.pre, 1, vlast.idx) \o <<vlast.elem>>
                      \o SubSeq(vlast.pre, vlast.idx + 1, Len(vlast.pre))
           /\ vec.len = Len(vlast.pre) + 1
    /\ (vlast.op = "remove" /\ vlast.res = "Ok") =>
           /\ vlast.idx < Len(vlast.pre)
           /\ vlast.ret = vlast.pre[vlast.idx + 1]
           /\ as_slice(mem, vec) =
                  SubSeq(vlast.pre, 1, vlast.idx)
                      \o SubSeq(vlast.pre, vlast.idx + 2, Len(vlast.pre))
           /\ vec.len = Len(vlast.pre) - 1

\* C18 witness: an insert at the front of two elements.
C18_Witness ==
    /\ vlast.op = "insert" /\ vlast.res = "Ok"
    /\ vlast.idx = 0
    /\ Len(vlast.pre) >= 2

\* C19: remove(i) right after a successful insert(i, x) returns x and leaves
\* as_slice() and len() as they were before the insert.
C19_InsertThenRemoveRoundTrip ==
    (/\ vlast.op = "remove" /\ vlast.res = "Ok"
     /\ vlast.prev.op = "insert"
     /\ vlast.prev.idx = vlast.idx) =>
        /\ vlast.ret = vlast.prev.elem
        /\ as_slice(mem, vec) = vlast.prev.pre
        /\ vec.len = Len(vlast.prev.pre)

\* C19 witness: the round trip in the middle of a Vec.
C19_Witness ==
    /\ vlast.op = "remove" /\ vlast.res = "Ok"
    /\ vlast.prev.op = "insert"
    /\ vlast.prev.idx = vlast.idx
    /\ vlast.idx >= 1
    /\ vlast.idx < Len(vlast.prev.pre)

\* C20: pop() on an empty Vec returns None and changes nothing; on a Vec of
\* len elements it returns the element at len - 1, decrements len() and
\* leaves the elements before it and capacity() alone; so a pop() right
\* after a successful push(x) returns x and restores the sequence.
C20_PopTakesTheLast ==
    /\ (vlast.op = "pop" /\ vlast.pre = << >>) =>
           /\ vlast.res = "None"
           /\ vec.len = 0
           /\ vec.cap = vlast.pre_cap
           /\ vec.ptr = vlast.pre_ptr
    /\ (vlast.op = "pop" /\ vlast.pre # << >>) =>
           /\ vlast.res = "Some"
           /\ vlast.ret = vlast.pre[Len(vlast.pre)]
           /\ vec.len = Len(vlast.pre) - 1
           /\ as_slice(mem, vec) = SubSeq(vlast.pre, 1, Len(vlast.pre) - 1)
           /\ vec.cap = vlast.pre_cap
    /\ (vlast.op = "pop" /\ vlast.prev.op = "push") =>
           /\ vlast.ret = vlast.prev.elem
           /\ as_slice(mem, vec) = vlast.prev.pre

\* C20 witness: a pop right after a push that had to grow a Vec of two.
C20_Witness ==
    /\ vlast.op = "pop" /\ vlast.res = "Some"
    /\ vlast.prev.op = "push"
    /\ Len(vlast.prev.pre) >= 2
    /\ vlast.pre_cap > Len(vlast.pre)

\* the last iterator made is still there to be called
Iterating == taken.by # "none" /\ ~ taken.dropped

\* C23: right after drain() has returned, before the iterator has yielded
\* anything, len() is 0 and as_slice() is empty, while capacity(), the
\* buffer and the elements in it are what they were: the Drain has all of
\* them still to yield.
C23_DrainEmptiesTheVecAtOnce ==
    vlast.op = "drain" =>
        /\ vec.len = 0
        /\ as_slice(mem, vec) = << >>
        /\ vec.cap = vlast.pre_cap
        /\ vec.ptr = vlast.pre_ptr
        /\ rest(mem, iter) = vlast.pre

\* C23 witness: drain() has just returned on a Vec of two elements or more.
C23_Witness ==
    /\ vlast.op = "drain"
    /\ Len(vlast.pre) >= 2
    /\ vec.cap >= 2

\* C24: the iterator of drain() or into_iter() over the elements s, of
\* length n, yields s[0], s[1], ... from the front and s[n-1], s[n-2], ...
\* from the back under any interleaving of next() and next_back(), each
\* element once; it returns None exactly when all n have been yielded; and
\* size_hint() is the number of elements not yet yielded.
C24_IteratorYieldsEachOnceInOrder ==
    LET n == Len(taken.src)
    IN  Iterating =>
            /\ taken.front + taken.back <= n
            /\ size_hint(iter) = n - (taken.front + taken.back)
            /\ (vlast.op = "next" /\ vlast.res = "Some") =>
                   vlast.ret = taken.src[taken.front]
            /\ (vlast.op = "next_back" /\ vlast.res = "Some") =>
                   vlast.ret = taken.src[n - taken.back + 1]
            /\ (vlast.op \in {"next", "next_back"} /\ vlast.res = "None") =>
                   taken.front + taken.back = n
            /\ rest(mem, iter) = SubSeq(taken.src, taken.front + 1,
                                        n - taken.back)

\* C24 witness: an IntoIter over three elements has yielded from both ends
\* and has then answered None.
C24_Witness ==
    /\ Iterating
    /\ taken.by = "into_iter"
    /\ Len(taken.src) = 3
    /\ taken.front >= 1
    /\ taken.back >= 1
    /\ vlast.res = "None"

\* C25: when a Drain or an IntoIter is destroyed after it has yielded k of
\* its n elements, from either end, the n - k elements it has not yielded
\* are destroyed once each, and no element it has yielded is destroyed, by
\* the iterator or afterwards by the Vec.
C25_IteratorDropDestroysTheRest ==
    LET n == Len(taken.src)
    IN  taken.dropped =>
            \A i \in 1..n :
                drops[taken.src[i]] =
                    IF i > taken.front /\ i <= n - taken.back THEN 1 ELSE 0

\* C25 witness: a Drain over three elements was destroyed after it had
\* yielded one from each end, and the Vec was destroyed after it.
C25_Witness ==
    /\ taken.dropped
    /\ taken.by = "drain"
    /\ Len(taken.src) = 3
    /\ taken.front = 1
    /\ taken.back = 1
    /\ vlast.op = "drop"

\* the smallest power of two that is at least n
Pow2AtLeast(n) ==
    CHOOSE p \in {2^k : k \in 0..n} :
        /\ p >= n
        /\ \A q \in {2^k : k \in 0..n} : q >= n => p <= q

\* C30: a Vec built from Vec::new by pushes alone has capacity 0 before the
\* first push and afterwards the smallest power of two that is at least its
\* len, the largest len it has reached; a push that changes the capacity
\* found len == capacity and leaves 1 after 0 and twice the capacity
\* otherwise, and a push or insert fails only when len == capacity.
C30_GrowDoublesFromOne ==
    /\ trail.only =>
           vec.cap = IF vec.len = 0 THEN 0 ELSE Pow2AtLeast(vec.len)
    /\ (vlast.op = "push" /\ vec.cap # vlast.pre_cap) =>
           /\ Len(vlast.pre) = vlast.pre_cap
           /\ vec.cap = IF vlast.pre_cap = 0 THEN 1 ELSE 2 * vlast.pre_cap
    /\ (vlast.op \in {"push", "insert"} /\ vlast.res = "Err") =>
           Len(vlast.pre) = vlast.pre_cap

\* C30 witness: three pushes from Vec::new, the third of which doubled the
\* capacity from 2 to 4.
C30_Witness ==
    /\ trail.only
    /\ vlast.op = "push"
    /\ vec.len = 3
    /\ vlast.pre_cap = 2
    /\ vec.cap = 4

\* the offset one past the last byte of a block the caller holds
BlockEnd(b) == get_block_idx(b.ptr) + b.size

\* C26 (as stated): after any sequence of allocs and deallocs, in any order,
\* top is the end offset of the most recently allocated block that has not
\* been passed to dealloc, and 0 if there is none.  It is stated here for
\* the sequences that allocate blocks of non-zero size without padding and
\* then free some of them.
C26_TopIsEndOfNewestLiveBlock ==
    (hist.phase # "mixed" /\ hist.nonempty /\ ~ hist.padded) =>
        top = IF blocks = << >> THEN 0 ELSE BlockEnd(blocks[Len(blocks)])

\* C26 (amended): every live block of non-zero size ends at or below top;
\* right after a successful alloc top is the end offset of the block just
\* returned; and a dealloc moves top only if the block it is given ends at
\* top, to the start of that block, so that after deallocs in another order
\* top stays above the newest live block, or above 0 when no block is live.
C26_TopCoversLiveBlocks ==
    /\ \A i \in 1..Len(blocks) :
           blocks[i].size > 0 => BlockEnd(blocks[i]) <= top
    /\ (last.op = "alloc" /\ last.res = "Ok") =>
           /\ blocks # << >>
           /\ top = BlockEnd(blocks[Len(blocks)])
    /\ last.op = "dealloc" =>
           top = IF last.idx + last.size = last.pre_top
                 THEN last.idx
                 ELSE last.pre_top

\* C26 witness: every block has been passed to dealloc, not in reverse
\* order, and top is above 0.
C26_Witness ==
    /\ last.op = "dealloc"
    /\ hist.phase = "dealloc"
    /\ ~ hist.lifo
    /\ blocks = << >>
    /\ top > 0

\* C21: after a successful reserve(additional) capacity() is at least the
\* capacity before plus additional and the buffer has room for that many
\* elements; so with_capacity(alloc, n) returns a RawVec of capacity() >= n
\* over a block of n elements.
C21_ReserveMakesRoom ==
    (vlast.op \in {"reserve", "with_capacity"} /\ vlast.res = "Ok") =>
        /\ vec.cap >= vlast.pre_cap + vlast.arg
        /\ held >= (vlast.pre_cap + vlast.arg) * SizeOfT

\* C22: Vec::new gives len 0 and capacity 0 and calls nothing of the
\* allocator; destroying a Vec that never grew calls neither alloc nor
\* dealloc: bytes_in_use() and high_water_mark() are what they were, also
\* when another user holds blocks of the arena.  (The arena is compared
\* while the other user has not allocated since the call.)
C22_EmptyVecLeavesArenaAlone ==
    /\ vlast.op = "new" =>
           /\ vec.alive
           /\ vec.len = 0
           /\ vec.cap = 0
           /\ vec.ptr = dangling
           /\ held = None
           /\ Len(blocks) = vlast.others =>
                  /\ bytes_in_use = vlast.pre_top
                  /\ high_water_mark = vlast.pre_high
    /\ (vlast.op = "drop" /\ vlast.pre_cap = 0) =>
           /\ vlast.pre_held = None
           /\ Len(blocks) = vlast.others =>
                  /\ bytes_in_use = vlast.pre_top
                  /\ high_water_mark = vlast.pre_high

\* C22 witness: a RawVec that never grew has been destroyed on an arena of
\* which another user holds a block.
C22_Witness ==
    /\ vlast.op = "drop"
    /\ vlast.pre_cap = 0
    /\ blocks # << >>
    /\ Len(blocks) = vlast.others
    /\ top > 0

\* C29: in every state reached through new, with_capacity, reserve and grow
\* the capacity is 0 exactly when the RawVec holds no block, and a non-zero
\* capacity goes with a block that was obtained with size capacity *
\* size_of::<T>(), the size of the layout that alloc_layout() hands to
\* grow_in_place and dealloc.
C29_CapacityMatchesBlock ==
    vec.alive =>
        /\ vec.cap = 0 <=> held = None
        /\ vec.cap # 0 => held = array_size(vec.cap)

\* C27: whatever the interleaving of the pushes on two Vecs that share one
\* LinearAlloc, as_slice() of each Vec is the sequence of the values that
\* were pushed on it with success, in order: the growth of one of them
\* neither overwrites nor loses an element of either.
C27_TwoVecsKeepTheirOwn ==
    \A who \in 1..2 :
        /\ as_slice(mem, vec[who]) = trail[who]
        /\ vec[who].len = Len(trail[who])

\* C27 witness: both Vecs have been moved to a new block and hold three and
\* two elements, after pushes that were not in strict turns.
C27_Witness ==
    /\ ~ vlast.alt
    /\ vec[1].len = 3
    /\ vec[2].len = 2
    /\ get_block_idx(vec[1].ptr) > get_block_idx(vec[2].ptr)
    /\ get_block_idx(vec[2].ptr) > 0

\* what C28 says of the pushes made so far in strict turns
TurnsNeverGrowInPlace ==
    vlast.alt =>
        /\ (vlast.op = "push" /\ vlast.pre_cap # 0
               /\ vec[vlast.who].cap # vlast.pre_cap) =>
               /\ vec[vlast.who].ptr # vlast.pre_ptr
               /\ bytes_in_use =
                      vlast.pre_top + array_size(vec[vlast.who].cap)
        /\ bytes_in_use = vlast.asked

C34_StackAllocRoundsDown ==
    (last.op = "alloc" /\ last.res = "Ok") =>
        /\ (buf_base + last.idx) % last.align = 0
        /\ last.idx <= last.pre_top
        /\ last.idx > last.pre_top - last.align
        /\ last.idx < last.pre_top <=>
               (buf_base + last.pre_top) % last.align # 0

\* C34 witness: after an alloc of 1 byte, an alloc of 2 bytes aligned to 2
\* has returned a block that starts below the old top and shares a byte
\* with the live block of 1 byte.
C34_Witness ==
    /\ last.op = "alloc" /\ last.res = "Ok"
    /\ last.size = 2 /\ last.align = 2
    /\ last.idx < last.pre_top
    /\ Len(blocks) = 2
    /\ blocks[1].size = 1
    /\ get_block_idx(blocks[1].ptr) >= last.idx
    /\ get_block_idx(blocks[1].ptr) < last.idx + last.size

\* the RawVec's last call found its block topmost in the arena, of the size
\* of its layout, with room above it for the growth it asked for
GrowthFitsOnTop ==
    /\ vlast.op \in {"grow", "reserve"}
    /\ vlast.pre_cap # 0
    /\ vlast.arg > 0
    /\ vlast.pre_held = vlast.pre_cap * SizeOfT
    /\ get_block_idx(vlast.pre_ptr) + vlast.pre_held = vlast.pre_top
    /\ vlast.pre_top + vlast.arg * SizeOfT <= buf_len
    /\ Len(blocks) = vlast.others

\* C31: when the block of a Vec is the topmost block of the arena and the
\* arena has the growth delta free, the growth succeeds in place: the
\* pointer is the same, and top has advanced by the size of the added
\* capacity, which no alloc and no dealloc could have left so.
C31_TopmostGrowsInPlace ==
    GrowthFitsOnTop =>
        /\ vlast.res = "Ok"
        /\ vec.ptr = vlast.pre_ptr
        /\ vec.cap = vlast.pre_cap + vlast.arg
        /\ bytes_in_use = vlast.pre_top + vlast.arg * SizeOfT

\* the capacity computation of reserve(additional) at capacity cap does not
\* fit the word
Overflows(cap, additional) ==
    IF cap = 0
    THEN additional * SizeOfT > UsizeMax
    ELSE \/ cap + additional > UsizeMax
         \/ (cap + additional) * SizeOfT > UsizeMax

\* C35: when the new capacity overflows the word, as a count or as a size
\* in bytes, reserve returns SizeOverflowErr as a value before it has
\* called the allocator, and capacity and pointer are what they were.
C35_OverflowIsReturned ==
    (/\ vlast.op \in {"reserve", "with_capacity", "grow"}
     /\ Overflows(vlast.pre_cap, vlast.arg)) =>
        /\ vlast.res = "Err"
        /\ vlast.err = "SizeOverflowErr"
        /\ vec.cap = vlast.pre_cap
        /\ vec.ptr = vlast.pre_ptr
        /\ Len(blocks) = vlast.others => bytes_in_use = vlast.pre_top

\* the Vec is the only user the arena has had
OnlyUser == blocks = << >>

\* the Vec and its RawVec have been destroyed
Destroyed == ~ vec.alive /\ iter = NoIter

\* while the Vec lives the arena holds its capacity and nothing else, and
\* nothing once it is destroyed
ArenaHoldsTheVecOnly ==
    /\ vec.alive => bytes_in_use = vec.cap * SizeOfT
    /\ Destroyed => bytes_in_use = 0

\* C36: for a single Vec that is the only user of an initially empty
\* LinearAlloc, built by Vec::new and any push/pop/insert/remove/drain,
\* bytes_in_use() equals capacity() * size_of::<T>() while it lives and is 0
\* again after it is destroyed.
C36_BytesInUseIsTheCapacity == OnlyUser => ArenaHoldsTheVecOnly

\* C36, amended: the same on a buffer that starts at a multiple of
\* align_of::<T>(), so that the first block is not preceded by padding.
C36_BytesInUseIsTheCapacityAligned ==
    (OnlyUser /\ BufAligned) => ArenaHoldsTheVecOnly

\* C36 witness: the only user's Vec grew to capacity 2 on an aligned buffer,
\* held one element when it was destroyed, and the arena is empty again.
C36_Witness ==
    /\ OnlyUser
    /\ BufAligned
    /\ Destroyed
    /\ vlast.op = "drop"
    /\ vlast.pre_cap = 2
    /\ Len(vlast.pre) = 1
    /\ bytes_in_use = 0

\* the last call was a push or an insert on a full Vec whose block was
\* aligned, so that grow_in_place answered, and was not the topmost block or
\* had no room to double, so that the answer was a refusal
GrowthRefused ==
    /\ vlast.op \in {"push", "insert"}
    /\ vlast.op = "insert" => vlast.idx <= Len(vlast.pre)
    /\ vlast.pre_cap # 0
    /\ Len(vlast.pre) = vlast.pre_cap
    /\ vlast.pre_ptr % AlignOfT = 0
    /\ \/ get_block_idx(vlast.pre_ptr) + vlast.pre_cap * SizeOfT
              # vlast.pre_top
       \/ vlast.pre_top + vlast.pre_cap * SizeOfT > buf_len

\* C33: a push or insert never returns the allocator's refusal to grow in
\* place; after a refusal the Vec asks for a fresh block above the old top
\* and moves there, and the call fails only with AllocErr, when that block
\* is not to be had, or with SizeOverflowErr, leaving the Vec as it was.
C33_RefusalIsNotReturned ==
    /\ (vlast.op \in {"push", "insert"} /\ vlast.res = "Err") =>
           /\ vlast.err \in {"AllocErr", "SizeOverflowErr"}
           /\ vec.ptr = vlast.pre_ptr
           /\ vec.cap = vlast.pre_cap
           /\ as_slice(mem, vec) = vlast.pre
    /\ GrowthRefused =>
           /\ vlast.res \in {"Ok", "Err"}
           /\ vlast.res = "Err" => vlast.err = "AllocErr"
           /\ vlast.res = "Ok" =>
                  /\ vec.ptr # vlast.pre_ptr
                  /\ get_block_idx(vec.ptr) >= vlast.pre_top
                  /\ vec.cap = 2 * vlast.pre_cap

\* C33 witness: the other user's block lay above the Vec's, in-place growth
\* was refused, and the push moved the Vec to a fresh block.
C33_Witness ==
    /\ GrowthRefused
    /\ blocks # << >>
    /\ vlast.op = "push"
    /\ vlast.res = "Ok"
    /\ vlast.pre_cap = 1
    /\ vec.cap = 2
    /\ get_block_idx(vec.ptr) >= vlast.pre_top

\* the steps of the last call that hand a block back, and those that
\* destroy an element
Releases == {i \in DOMAIN vlast.steps : vlast.steps[i].step = "dealloc"}

Destructions ==
    {i \in DOMAIN vlast.steps : vlast.steps[i].step = "drop_in_place"}

\* the elements the last call destroyed, in the order it destroyed them
Destroyed_elems ==
    [i \in 1..Cardinality(Destructions) |-> vlast.steps[i].elem]

\* the elements an iterator has not yielded, front to back
NotYielded ==
    SubSeq(taken.src, taken.front + 1, Len(taken.src) - taken.back)

Reversed(s) == [i \in 1..Len(s) |-> s[Len(s) + 1 - i]]

\* every destruction comes before the release; the block is released once,
\* by a dealloc of the whole capacity, if there is a block, and the arena
\* gets it back if it is the topmost
ReleasedOnceAtTheEnd ==
    /\ \A i \in Destructions : \A j \in Releases : i < j
    /\ Cardinality(Releases) = IF vlast.pre_cap # 0 THEN 1 ELSE 0
    /\ \A j \in Releases :
           /\ vlast.steps[j].block = get_block_idx(vlast.pre_ptr)
           /\ vlast.steps[j].size = vlast.pre_cap * SizeOfT
           /\ (/\ vlast.steps[j].block + vlast.steps[j].size = vlast.pre_top
               /\ Len(blocks) = vlast.others) =>
                  bytes_in_use = vlast.steps[j].block
    /\ vec.cap = 0
    /\ ~ vec.alive

\* C32: when a Vec, or an IntoIter made from one, is destroyed, all the
\* elements it still has are destroyed before its block is released, a
\* Vec's from index len - 1 down to 0; the block is released exactly once,
\* by one dealloc of the whole capacity; and into_iter itself releases
\* nothing and leaves no Vec behind whose destructor could.
C32_ElementsGoBeforeTheBlock ==
    /\ vlast.op = "drop" =>
           /\ ReleasedOnceAtTheEnd
           /\ Destroyed_elems = Reversed(vlast.pre)
    /\ vlast.op = "into_iter_drop" =>
           /\ ReleasedOnceAtTheEnd
           /\ Destroyed_elems = NotYielded
    /\ vlast.op = "into_iter" =>
           /\ vlast.steps = << >>
           /\ Len(blocks) = vlast.others => bytes_in_use = vlast.pre_top
           /\ vec.cap = vlast.pre_cap
           /\ ~ vec.alive
    /\ vlast.op \notin {"drop", "into_iter_drop"} => vlast.steps = << >>

\* C32 witness: an IntoIter over three elements was destroyed after it had
\* yielded the first: the other two were destroyed, then the block of four
\* elements was released and the arena was empty.
C32_Witness ==
    /\ vlast.op = "into_iter_drop"
    /\ Len(taken.src) = 3
    /\ taken.front = 1
    /\ Len(vlast.steps) = 3
    /\ vlast.steps[3] = Released(get_block_idx(vlast.pre_ptr), 4 * SizeOfT)
    /\ bytes_in_use = 0

====
